---- MODULE Spec2Model ----
(***************************************************************************)
(* A model of doco: the actor group started by main (API server and load   *)
(* balancer under one cancellation context), the API router with its blob  *)
(* handler, the response adapter withError, the error envelope Err, and    *)
(* the routing encoded in caddyfileTemplate.                               *)
(***************************************************************************)
EXTENDS Naturals, Sequences, FiniteSets

VARIABLES
    pc,           \* position of main / run.Group.Run
    actorState,   \* per actor: position of its execute function
    actorErr,     \* per actor: the value its execute function returned
    errors,       \* the buffered channel `errors` of run.Group.Run
    err,          \* `err := <-errors` of run.Group.Run
    idx,          \* index of the loop `for _, a := range g.actors { a.interrupt(err) }`
    drained,      \* loop variable i of the drain loop of run.Group.Run
    interrupted,  \* per actor: how many times its interrupt function was invoked
    intArg,       \* per actor: the argument its interrupt function received
    ctxDone,      \* whether cancel() of the shared context has been called
    runResult,       \* the value g.Run() returned
    finishOrder,  \* the actors in the order their execute functions returned
    sessionManager, \* the package variable sessionManager
    conns,        \* per connection of the API server: its request and how far it got
    call,         \* the last call of Err / withError / the proxy routing
    nextAddr      \* the next fresh address errors.New allocates

vars == << pc, actorState, actorErr, errors, err, idx, drained, interrupted,
           intArg, ctxDone, runResult, finishOrder, sessionManager, conns,
           call, nextAddr >>

groupVars == << pc, actorState, actorErr, errors, err, idx, drained,
                interrupted, intArg, ctxDone, runResult, finishOrder >>

apiVars == << sessionManager, conns >>

pureVars == << call, nextAddr >>

-----------------------------------------------------------------------------
(* Bounds of the model *)

MaxRequests == 2

MaxPathLen == 5

-----------------------------------------------------------------------------
(* Error values: a Go error is an address (its identity) and a text *)

Nil == [addr |-> 0, s |-> "<nil>"]

ErrNotImplemented == [addr |-> 1, s |-> "not implemented"]

ErrNoRows == [addr |-> 2, s |-> "sql: no rows in result set"]

ErrDatabase == [addr |-> 3, s |-> "sql: database is closed"]

ErrListen == [addr |-> 4, s |-> "listen tcp :8081: bind: address already in use"]

ErrCaddyStart == [addr |-> 5, s |-> "listen tcp :8080: bind: address already in use"]

ErrUnsupportedType == [addr |-> 6, s |-> "json: unsupported type: chan int"]

ErrAccept == [addr |-> 7, s |-> "accept tcp [::]:8081: use of closed network connection"]

\* context.Canceled, the error of the shared context once cancel() was called
ErrCanceled == [addr |-> 8, s |-> "context canceled"]

\* the first address not taken by one of the error values above
FirstFreeAddr == ErrCanceled.addr + 1

ErrorPool == {ErrNotImplemented, ErrNoRows, ErrDatabase}

\* errors.New(text): a fresh error value holding the text
ErrorsNew(text, addr) == [addr |-> addr, s |-> text]

\* err.Error()
ErrorText(e) == e.s

-----------------------------------------------------------------------------
(* Config defaults consumed by main *)

ServerAddr == ":8081"

LoadBalancerAddr == ":8080"

RootPath == "./web/dist"

-----------------------------------------------------------------------------
(* The actor group of main *)

\* g.Add(RunServer...), g.Add(RunLoadBalancer...): the actors in registration order
actors == << "server", "lb" >>

Actors == { actors[n] : n \in 1..Len(actors) }

\* cap(errors) == len(g.actors)
Cap == Len(actors)

\* A faulty variant of InterruptArg: a cancellation error is synthesized for nil
InterruptArg_Synthesized(e) == IF e = Nil THEN ErrCanceled ELSE e

\* a.interrupt(err): the received value is passed on as it is
InterruptArg(e) == e

\* A faulty variant of DrainDone: Run returns after the first receive
DrainDone_NoDrain == drained >= 1

\* the drain loop `for i := 1; i < cap(errors); i++` has ended
DrainDone == drained >= Cap

\* A faulty variant of GroupResult: the error of the last actor to stop
GroupResult_Last ==
    IF finishOrder = << >> THEN err ELSE actorErr[finishOrder[Len(finishOrder)]]

\* `return err` of Run: the first value received
GroupResult == err

\* an execute function returns e; the goroutine sends it on the channel
ExecuteReturn(a, e) ==
    /\ actorState' = [actorState EXCEPT ![a] = "returned"]
    /\ actorErr' = [actorErr EXCEPT ![a] = e]
    /\ errors' = Append(errors, e)
    /\ finishOrder' = Append(finishOrder, a)
    /\ UNCHANGED << pc, err, idx, drained, interrupted, intArg, ctxDone, runResult >>

\* g.Run(): every actor's execute function is started in its own goroutine
Group_Start ==
    /\ pc = "boot"
    /\ pc' = "recv"
    /\ actorState' = [a \in Actors |-> "starting"]
    /\ UNCHANGED << actorErr, errors, err, idx, drained, interrupted, intArg,
                    ctxDone, runResult, finishOrder >>
    /\ UNCHANGED << apiVars, pureVars >>

\* RunServer: http.ListenAndServe has bound serverAddr and accepts connections
RunServer_Listening ==
    /\ pc \notin {"boot", "exited"}
    /\ actorState["server"] = "starting"
    /\ actorState' = [actorState EXCEPT !["server"] = "listening"]
    /\ UNCHANGED << pc, actorErr, errors, err, idx, drained, interrupted, intArg,
                    ctxDone, runResult, finishOrder >>
    /\ UNCHANGED << apiVars, pureVars >>

\* RunServer: http.ListenAndServe could not bind serverAddr and returns the error
RunServer_BindFailed ==
    /\ pc \notin {"boot", "exited"}
    /\ actorState["server"] = "starting"
    /\ ExecuteReturn("server", ErrListen)
    /\ UNCHANGED << apiVars, pureVars >>

\* RunServer: the listener of http.ListenAndServe failed, the (always non-nil)
\* error is returned; ctx is not read
RunServer_ServeFailed ==
    /\ pc \notin {"boot", "exited"}
    /\ actorState["server"] = "listening"
    /\ ExecuteReturn("server", ErrAccept)
    /\ UNCHANGED << apiVars, pureVars >>

\* RunLoadBalancer: caddy.Start succeeded, instance.Wait() blocks
RunLoadBalancer_Started ==
    /\ pc \notin {"boot", "exited"}
    /\ actorState["lb"] = "starting"
    /\ actorState' = [actorState EXCEPT !["lb"] = "serving"]
    /\ UNCHANGED << pc, actorErr, errors, err, idx, drained, interrupted, intArg,
                    ctxDone, runResult, finishOrder >>
    /\ UNCHANGED << apiVars, pureVars >>

\* RunLoadBalancer: caddy.Start failed, the error is returned
RunLoadBalancer_StartFailed ==
    /\ pc \notin {"boot", "exited"}
    /\ actorState["lb"] = "starting"
    /\ ExecuteReturn("lb", ErrCaddyStart)
    /\ UNCHANGED << apiVars, pureVars >>

\* RunLoadBalancer: instance.Wait() returned (the instance's servers
\* stopped), nil is returned; ctx is not read
RunLoadBalancer_WaitReturned ==
    /\ pc \notin {"boot", "exited"}
    /\ actorState["lb"] = "serving"
    /\ ExecuteReturn("lb", Nil)
    /\ UNCHANGED << apiVars, pureVars >>

\* Run: `err := <-errors`, the first actor observed to stop
Group_RecvFirst ==
    /\ pc = "recv"
    /\ Len(errors) > 0
    /\ err' = Head(errors)
    /\ errors' = Tail(errors)
    /\ pc' = "interrupt"
    /\ idx' = 1
    /\ UNCHANGED << actorState, actorErr, drained, interrupted, intArg, ctxDone,
                    runResult, finishOrder >>
    /\ UNCHANGED << apiVars, pureVars >>

\* Run: `a.interrupt(err)` for the next actor of g.actors; the interrupt
\* functions of main print the error and call cancel()
Group_Interrupt ==
    /\ pc = "interrupt"
    /\ idx <= Len(actors)
    /\ interrupted' = [interrupted EXCEPT ![actors[idx]] = @ + 1]
    /\ intArg' = [intArg EXCEPT ![actors[idx]] = InterruptArg(err)]
    /\ ctxDone' = TRUE
    /\ idx' = idx + 1
    /\ IF idx = Len(actors)
          THEN pc' = "drain" /\ drained' = 1
          ELSE pc' = "interrupt" /\ drained' = drained
    /\ UNCHANGED << actorState, actorErr, errors, err, runResult, finishOrder >>
    /\ UNCHANGED << apiVars, pureVars >>

\* Run: one `<-errors` of the drain loop
Group_Drain ==
    /\ pc = "drain"
    /\ ~DrainDone
    /\ Len(errors) > 0
    /\ errors' = Tail(errors)
    /\ drained' = drained + 1
    /\ UNCHANGED << pc, actorState, actorErr, err, idx, interrupted, intArg,
                    ctxDone, runResult, finishOrder >>
    /\ UNCHANGED << apiVars, pureVars >>

\* Run: `return err`
Group_Return ==
    /\ pc = "drain"
    /\ DrainDone
    /\ pc' = "returned"
    /\ runResult' = GroupResult
    /\ UNCHANGED << actorState, actorErr, errors, err, idx, drained, interrupted,
                    intArg, ctxDone, finishOrder >>
    /\ UNCHANGED << apiVars, pureVars >>

\* main: log.Fatalln(g.Run()) ends the process
Main_Fatal ==
    /\ pc = "returned"
    /\ pc' = "exited"
    /\ UNCHANGED << actorState, actorErr, errors, err, idx, drained, interrupted,
                    intArg, ctxDone, runResult, finishOrder >>
    /\ UNCHANGED << apiVars, pureVars >>

-----------------------------------------------------------------------------
(* The error envelope *)

\* Err(err, message...): message is the variadic argument, a sequence
Err(e, message) ==
    [Err |-> ErrorText(e),
     Message |-> IF Len(message) > 0 THEN message[1] ELSE ErrorText(e)]

\* (*ErrorResponse).Unwrap: errors.New(e.Err), a new error value
Unwrap(e, addr) == ErrorsNew(e.Err, addr)

\* (*ErrorResponse).Error
EnvelopeError(e) == e.Message

\* (*ErrorResponse).JSON: json.Marshal of the struct by its field tags
JSON(e) == << "{", "err", ":", e.Err, ",", "message", ":", e.Message, "}" >>

\* the object a client decodes from a body written by http.Error(w, e.JSON(), code):
\* the keys of the JSON text with their values, or no keys when it is no such text
DecodeJSON(body) ==
    IF /\ Len(body) = 10
       /\ body[1] = "{" /\ body[3] = ":" /\ body[5] = ","
       /\ body[7] = ":" /\ body[9] = "}" /\ body[10] = "\n"
    THEN { << body[2], body[4] >>, << body[6], body[8] >> }
    ELSE {}

-----------------------------------------------------------------------------
(* HTTP responses *)

HeaderNames == {"Content-Type", "Content-Disposition", "X-Content-Type-Options"}

NoHeader == [h \in HeaderNames |-> << >>]

NoResponse == [status |-> 0, header |-> NoHeader, body |-> << >>]

\* w.Header().Add(name, value)
HeaderAdd(header, name, value) == [header EXCEPT ![name] = Append(@, value)]

\* w.Header().Set(name, value)
HeaderSet(header, name, value) == [header EXCEPT ![name] = << value >>]

\* http.Error(w, body, code) on a writer holding `header`
HttpError(header, body, code) ==
    [status |-> code,
     header |-> HeaderSet(HeaderSet(header, "Content-Type", "text/plain; charset=utf-8"),
                          "X-Content-Type-Options", "nosniff"),
     body |-> body \o << "\n" >>]

-----------------------------------------------------------------------------
(* The content store *)

BlobTable ==
    { [FileName |-> "a.png", MimeType |-> "image/png", File |-> << "b1", "b2" >>],
      [FileName |-> "b.bin", MimeType |-> "unknown", File |-> << "b3" >>],
      [FileName |-> "c.txt", MimeType |-> "", File |-> << >>] }

BlobKeys == {"a.png", "b.bin", "c.txt", "nonexistent.png"}

NoBlob == [FileName |-> "", MimeType |-> "", File |-> << >>]

\* db.Blobs(db.BlobWhere.FileName.EQ(name)).OneG(): the blob, or an error
OneG(name, dbok) ==
    IF ~dbok THEN [blob |-> NoBlob, err |-> ErrDatabase]
    ELSE IF \E b \in BlobTable : b.FileName = name
         THEN [blob |-> CHOOSE b \in BlobTable : b.FileName = name, err |-> Nil]
         ELSE [blob |-> NoBlob, err |-> ErrNoRows]

\* the content type http.ServeContent derives from the name when none is set
TypeByExtension(name) ==
    CASE name = "a.png" -> "image/png"
      [] name = "c.txt" -> "text/plain; charset=utf-8"
      [] OTHER -> "application/octet-stream"

\* http.ServeContent for a GET without Range or conditional headers
ServeContent(header, name, content) ==
    [status |-> 200,
     header |-> IF header["Content-Type"] = << >>
                THEN HeaderSet(header, "Content-Type", TypeByExtension(name))
                ELSE header,
     body |-> content]

-----------------------------------------------------------------------------
(* The API server *)

\* A faulty variant of MimeTypeKnown: the sentinel is not checked
MimeTypeKnown_NoSentinel(blob) == blob.MimeType # ""

\* blobHandler: `blob.MimeType != "" && blob.MimeType != "unknown"`
MimeTypeKnown(blob) == blob.MimeType # "" /\ blob.MimeType # "unknown"

\* fmt.Sprintf("%s;filename=%s", "attachment", blob.FileName)
ContentDisposition(blob) == << "attachment", ";filename=", blob.FileName >>

\* A faulty variant of LookupFailed: the handler goes on with the empty blob
LookupFailed_Ignored(r) == FALSE

\* blobHandler: `if err != nil`
LookupFailed(r) == r.err # Nil

\* blobHandler once OneG has returned r: the response it writes
blobHandler(r) ==
    LET blob == r.blob
        h1 == IF MimeTypeKnown(blob)
              THEN HeaderAdd(NoHeader, "Content-Type", blob.MimeType)
              ELSE NoHeader
        h2 == HeaderAdd(h1, "Content-Disposition", ContentDisposition(blob))
    IN  IF LookupFailed(r)
        THEN HttpError(NoHeader, JSON(Err(r.err, << >>)), 400)
        ELSE ServeContent(h2, blob.FileName, blob.File)

\* promhttp.Handler().ServeHTTP
metricsExposition ==
    [status |-> 200,
     header |-> HeaderSet(NoHeader, "Content-Type",
                          "text/plain; version=0.0.4; charset=utf-8"),
     body |-> << "# metrics" >>]

\* chi's answer for a path no route matches
NotFound == HttpError(NoHeader, << "404 page not found" >>, 404)

\* chi.URLParam(r, "blob_id") on the pattern /blobs/{blob_id}
URLParam(path) == path[3]

\* `var sessionManager *scs.SessionManager`: nil as declared, or the manager
\* a file of the package outside this model has assigned
SessionManagers == {"nil", "set"}

RequestPaths ==
    { << "api", "blobs", k >> : k \in BlobKeys }
        \cup { << "api", "metrics" >>, << "index.html" >> }

\* a GET request: its path and whether it carries an authenticated session
Requests == [path : RequestPaths, session : BOOLEAN]

NoRequest == [path |-> << >>, session |-> FALSE]

NoLookup == [blob |-> NoBlob, err |-> Nil]

\* a connection: "idle" (not yet accepted), "accepted" (its goroutine has
\* not run yet), "inOneG" (blobHandler waits for the store), "done" (the
\* response is written) or "panicked" (the goroutine panicked and net/http
\* closed the connection without a response)
IdleConn ==
    [stage |-> "idle", req |-> NoRequest, lookedUp |-> FALSE,
     lookup |-> NoLookup, resp |-> NoResponse]

Conns == 1..MaxRequests

\* RunServer: the handler sessionManager.LoadAndSave(r) serving req, up to the
\* point where it blocks or has answered. LoadAndSave's closure reads
\* s.Cookie.Name, which panics on a nil manager, before the router runs
Router(sm, conn) ==
    IF sm = "nil"
    THEN [conn EXCEPT !.stage = "panicked"]
    ELSE IF Len(conn.req.path) = 3 /\ conn.req.path[1] = "api" /\ conn.req.path[2] = "blobs"
    THEN [conn EXCEPT !.stage = "inOneG"]
    ELSE IF conn.req.path = << "api", "metrics" >>
    THEN [conn EXCEPT !.stage = "done", !.resp = metricsExposition]
    ELSE [conn EXCEPT !.stage = "done", !.resp = NotFound]

\* http.ListenAndServe accepts a connection and starts its goroutine
AcceptRequest ==
    /\ pc \notin {"boot", "exited"}
    /\ actorState["server"] = "listening"
    /\ \E c \in Conns :
          /\ conns[c].stage = "idle"
          /\ \A d \in Conns : d < c => conns[d].stage # "idle"
          /\ \E req \in Requests :
                conns' = [conns EXCEPT ![c] = [IdleConn EXCEPT !.stage = "accepted",
                                                               !.req = req]]
    /\ UNCHANGED << sessionManager, groupVars, pureVars >>

\* the goroutine of a connection runs the handler; it goes on after
\* ListenAndServe has returned, until the process ends
ServeRequest ==
    /\ pc # "exited"
    /\ \E c \in Conns :
          /\ conns[c].stage = "accepted"
          /\ conns' = [conns EXCEPT ![c] = Router(sessionManager, conns[c])]
    /\ UNCHANGED << sessionManager, groupVars, pureVars >>

\* blobHandler: OneG returns for chi.URLParam(r, "blob_id"), with the blob or
\* an error, and the handler writes its response
BlobLookupReturns ==
    /\ pc # "exited"
    /\ \E c \in Conns, dbok \in BOOLEAN :
          /\ conns[c].stage = "inOneG"
          /\ LET r == OneG(URLParam(conns[c].req.path), dbok)
             IN  conns' = [conns EXCEPT ![c] = [@ EXCEPT !.stage = "done",
                                                         !.lookedUp = TRUE,
                                                         !.lookup = r,
                                                         !.resp = blobHandler(r)]]
    /\ UNCHANGED << sessionManager, groupVars, pureVars >>

-----------------------------------------------------------------------------
(* The response adapter *)

\* results a HandlerFunc may return: nil, a value json can encode, one it cannot
NilResult == "nil"

Results == {NilResult, "struct{}", "chan int"}

StatusCodes == {200, 400, 500}

\* json.NewEncoder(w).Encode(result): the text written, or the error
Encode(result) ==
    IF result = "chan int"
    THEN [out |-> << >>, err |-> ErrUnsupportedType]
    ELSE [out |-> << IF result = NilResult THEN "null" ELSE "{}", "\n" >>, err |-> Nil]

\* A faulty variant of ResultMissing: a nil result is encoded like any other
ResultMissing_Never(result) == FALSE

\* withError: `if result == nil`
ResultMissing(result) == result = NilResult

\* withError(next) serving a request for which next returned (result, code, e);
\* addr is the address errors.New("no response") would take
withError(result, code, e, addr) ==
    IF e # Nil
    THEN HttpError(NoHeader, JSON(Err(e, << >>)), code)
    ELSE IF ResultMissing(result)
    THEN HttpError(NoHeader,
                   JSON(Err(ErrorsNew("no response", addr), << "no response" >>)), code)
    ELSE IF Encode(result).err # Nil
    THEN HttpError(NoHeader, JSON(Err(Encode(result).err, << >>)), code)
    ELSE [status |-> 200,
          header |-> HeaderSet(NoHeader, "Content-Type", "text/plain; charset=utf-8"),
          body |-> Encode(result).out]

\* (*API).metricsHandler
metricsHandler == [result |-> NilResult, code |-> 200, err |-> ErrNotImplemented]

\* (*API).checkHandler
checkHandler == [result |-> "struct{}", code |-> 200, err |-> Nil]

-----------------------------------------------------------------------------
(* The proxy configuration *)

Alphabet == {"/", "a", "p", "i", "x"}

\* request paths, as the sequences of their characters
Paths ==
    { p \in UNION { [1..n -> Alphabet] : n \in 1..MaxPathLen } : p[1] = "/" }

\* strings.HasPrefix
HasPrefix(p, prefix) ==
    /\ Len(p) >= Len(prefix)
    /\ \A n \in 1..Len(prefix) : p[n] = prefix[n]

\* caddyfileTemplate executed on the data of RunLoadBalancer
Caddyfile(caddyAddr, apiAddr, rootPath) ==
    [addr |-> caddyAddr,
     tls |-> "off",
     proxyFrom |-> << "/", "a", "p", "i", "/" >>,
     proxyTo |-> << "localhost", apiAddr >>,
     proxyOptions |-> {"transparent", "websocket", "timeout 10m"},
     root |-> rootPath,
     rewriteIfPathNotMatch |-> << "/", "a", "p", "i" >>,
     rewriteTo |-> << "{path}", "/" >>]

\* the pattern ^/api of the rewrite's `if {path} not_match`: an anchored literal
RegexMatch(p, literal) == HasPrefix(p, literal)

\* the rewrite directive: `to {path} /` takes the first target that exists
\* under the root, and the last one when none does
Rewrite(cfg, p, exists) ==
    IF ~RegexMatch(p, cfg.rewriteIfPathNotMatch)
    THEN IF exists THEN p ELSE << "/" >>
    ELSE p

\* the site of the Caddyfile serving a request path; exists says whether
\* the path names a file under the root
ServeSite(cfg, p, exists) ==
    LET q == Rewrite(cfg, p, exists)
    IN  IF HasPrefix(q, cfg.proxyFrom)
        THEN [to |-> "proxy", upstream |-> cfg.proxyTo, path |-> q]
        ELSE [to |-> "static", upstream |-> << cfg.root >>, path |-> q]

\* RunLoadBalancer: the configuration caddy.Start is given
LoadBalancerConfig == Caddyfile(LoadBalancerAddr, ServerAddr, RootPath)

-----------------------------------------------------------------------------
(* Calls of the pure functions: one call, on inputs drawn from their sets *)

MessageOverrides == { << >>, << "override" >>, << "first", "second" >> }

Call_Err ==
    /\ call.op = "none"
    /\ \E e \in ErrorPool, message \in MessageOverrides :
          call' = [op |-> "Err", err |-> e, message |-> message,
                   envelope |-> Err(e, message),
                   json |-> JSON(Err(e, message)),
                   unwrapped |-> Unwrap(Err(e, message), nextAddr)]
    /\ nextAddr' = nextAddr + 1
    /\ UNCHANGED << groupVars, apiVars >>

Call_withError ==
    /\ call.op = "none"
    /\ \E result \in Results, code \in StatusCodes, e \in ErrorPool \cup {Nil} :
          call' = [op |-> "withError", result |-> result, code |-> code, err |-> e,
                   resp |-> withError(result, code, e, nextAddr)]
    /\ nextAddr' = nextAddr + 1
    /\ UNCHANGED << groupVars, apiVars >>

Call_ServeSite ==
    /\ call.op = "none"
    /\ \E p \in Paths, exists \in BOOLEAN :
          call' = [op |-> "ServeSite", path |-> p, exists |-> exists,
                   out |-> ServeSite(LoadBalancerConfig, p, exists)]
    /\ UNCHANGED << nextAddr, groupVars, apiVars >>

-----------------------------------------------------------------------------
(* Specifications *)

Init ==
    /\ pc = "boot"
    /\ actorState = [a \in Actors |-> "idle"]
    /\ actorErr = [a \in Actors |-> Nil]
    /\ errors = << >>
    /\ err = Nil
    /\ idx = 0
    /\ drained = 0
    /\ interrupted = [a \in Actors |-> 0]
    /\ intArg = [a \in Actors |-> Nil]
    /\ ctxDone = FALSE
    /\ runResult = Nil
    /\ finishOrder = << >>
    /\ sessionManager \in SessionManagers
    /\ conns = [c \in Conns |-> IdleConn]
    /\ call = [op |-> "none"]
    /\ nextAddr = FirstFreeAddr

GroupStep ==
    \/ Group_Start
    \/ Group_RecvFirst
    \/ Group_Interrupt
    \/ Group_Drain
    \/ Group_Return
    \/ Main_Fatal

Next ==
    \/ GroupStep
    \/ RunServer_Listening
    \/ RunServer_BindFailed
    \/ RunServer_ServeFailed
    \/ RunLoadBalancer_Started
    \/ RunLoadBalancer_StartFailed
    \/ RunLoadBalancer_WaitReturned
    \/ AcceptRequest
    \/ ServeRequest
    \/ BlobLookupReturns

\* the program: main's actor group and the API server's requests
Spec == Init /\ [][Next]_vars

\* the same, with the goroutine of g.Run() scheduled whenever it can step;
\* nothing makes a listener fail, an instance stop or a client send a request
FairSpec == Spec /\ WF_vars(GroupStep)

PureNext ==
    \/ Call_Err
    \/ Call_withError
    \/ Call_ServeSite

\* calls of Err, withError and the routing of the generated configuration
PureSpec == Init /\ [][PureNext]_vars

-----------------------------------------------------------------------------
(* Properties of the actor group *)

\* the first actor observed to stop: the sender of the first value on `errors`
FirstFinisher == finishOrder[1]

GroupReturned == pc \in {"returned", "exited"}

InterruptsDone == pc \in {"drain", "returned", "exited"}

\* C1: once an actor's run function has returned, the interrupt function of
\* every other actor is invoked exactly once (none before the first return,
\* never a second one, and all of them by the time Run starts to wait), and
\* g.Run() has not returned while a run function is still running.
C1_InterruptOnceAndDrain ==
    /\ \A a \in Actors : interrupted[a] <= 1
    /\ (\E a \in Actors : interrupted[a] > 0) => finishOrder # << >>
    /\ InterruptsDone =>
          \A a \in Actors : a # FirstFinisher => interrupted[a] = 1
    /\ GroupReturned => \A a \in Actors : actorState[a] = "returned"

\* with the goroutine of g.Run() scheduled, the interrupts do happen
C1_InterruptsHappen ==
    \A a \in Actors :
        (actorState[a] = "returned")
            ~> (\A b \in Actors \ {a} : interrupted[b] = 1)

\* C1 witness: g.Run() has returned after interrupting each actor once
C1_Witness ==
    /\ pc = "returned"
    /\ \A a \in Actors : interrupted[a] = 1 /\ actorState[a] = "returned"

\* C2: once the shared context is cancelled both servers return, so that
\* after any actor's termination g.Run() returns and the process exits.
C2_CancelReachesServers ==
    /\ ctxDone ~> (\A a \in Actors : actorState[a] = "returned")
    /\ (finishOrder # << >>) ~> (pc = "exited")

\* C3 as stated: g.Run() returns the first observed outcome, and returns nil
\* only if no actor's run function returned a non-nil error.
C3_NilOnlyIfAllNil ==
    GroupReturned =>
        /\ runResult = actorErr[FirstFinisher]
        /\ runResult = Nil => \A a \in Actors : actorErr[a] = Nil

\* C3 as amended: g.Run() returns the outcome of the first actor observed to
\* stop, whatever the other actors returned; it is nil exactly when that
\* first outcome is nil.
C3_FirstObservedWins ==
    GroupReturned =>
        /\ runResult = actorErr[FirstFinisher]
        /\ runResult = Nil <=> actorErr[FirstFinisher] = Nil

\* C3 witness: g.Run() returned nil although an actor returned an error
C3_Witness ==
    /\ pc = "returned"
    /\ runResult = Nil
    /\ \E a \in Actors : actorErr[a] # Nil

\* C4 as stated: the first actor to finish is never interrupted, and each
\* sibling's interrupt receives the first actor's error, or a non-nil
\* synthesized signal when that actor returned nil.
C4_FirstFinisherNotInterrupted ==
    finishOrder # << >> =>
        /\ interrupted[FirstFinisher] = 0
        /\ \A b \in Actors \ {FirstFinisher} :
              interrupted[b] > 0 =>
                  /\ intArg[b] # Nil
                  /\ actorErr[FirstFinisher] # Nil => intArg[b] = actorErr[FirstFinisher]

\* C4 as amended: every actor's interrupt function, the first finisher's
\* included, is invoked once the first termination is observed, and each
\* receives the first finisher's return value unchanged (nil when it
\* returned nil).
C4_AllInterruptedWithFirstOutcome ==
    /\ \A a \in Actors :
          interrupted[a] > 0 => intArg[a] = actorErr[FirstFinisher]
    /\ InterruptsDone => interrupted[FirstFinisher] = 1

\* C4 witness: the first finisher returned nil, and it and its sibling were
\* interrupted with nil
C4_Witness ==
    /\ InterruptsDone
    /\ actorErr[FirstFinisher] = Nil
    /\ interrupted[FirstFinisher] = 1
    /\ \E b \in Actors \ {FirstFinisher} : interrupted[b] = 1 /\ intArg[b] = Nil

-----------------------------------------------------------------------------
(* Properties of the API server *)

IsBlobRequest(req) ==
    Len(req.path) = 3 /\ req.path[1] = "api" /\ req.path[2] = "blobs"

\* C5: a request that is answered receives blob bytes only if it carries an
\* authenticated session, while /api/metrics answers without one.
C5_BlobRequiresSession ==
    \A c \in Conns :
        conns[c].stage = "done" =>
            /\ (IsBlobRequest(conns[c].req) /\ conns[c].resp.status = 200)
                   => conns[c].req.session
            /\ conns[c].req.path = << "api", "metrics" >>
                   => conns[c].resp.status = 200

\* C6: a successful lookup answers 200 with the stored bytes and
\* Content-Disposition attachment;filename=<name>; Content-Type is the blob's
\* mime type iff that is neither empty nor "unknown", and otherwise the
\* handler sets none (the type is the one ServeContent derives).
C6_BlobDelivery ==
    \A c \in Conns :
        (conns[c].stage = "done" /\ conns[c].lookedUp /\ conns[c].lookup.err = Nil) =>
            LET b == conns[c].lookup.blob
                resp == conns[c].resp
            IN  /\ b \in BlobTable
                /\ b.FileName = conns[c].req.path[3]
                /\ resp.status = 200
                /\ resp.body = b.File
                /\ resp.header["Content-Disposition"]
                       = << << "attachment", ";filename=", b.FileName >> >>
                /\ IF b.MimeType # "" /\ b.MimeType # "unknown"
                   THEN resp.header["Content-Type"] = << b.MimeType >>
                   ELSE resp.header["Content-Type"] = << TypeByExtension(b.FileName) >>

\* C6 witness: the blob with mime type "unknown" was delivered
C6_Witness ==
    \E c \in Conns :
        /\ conns[c].stage = "done"
        /\ conns[c].req.path = << "api", "blobs", "b.bin" >>
        /\ conns[c].lookup.err = Nil
        /\ conns[c].resp.status = 200
        /\ conns[c].resp.body = << "b3" >>
        /\ conns[c].resp.header["Content-Type"] = << "application/octet-stream" >>

C7_Response ==
    \A c \in Conns :
        (conns[c].stage = "done" /\ conns[c].lookedUp /\ conns[c].lookup.err # Nil) =>
            LET text == ErrorText(conns[c].lookup.err)
                resp == conns[c].resp
            IN  /\ resp.status = 400
                /\ DecodeJSON(resp.body) = { << "err", text >>, << "message", text >> }
                /\ resp.header["Content-Disposition"] = << >>
                /\ resp.header["Content-Type"] = << "text/plain; charset=utf-8" >>

C7_KeepsServing ==
    \A c \in Conns :
        ( /\ conns[c].stage = "inOneG"
          /\ conns'[c].stage = "done"
          /\ conns'[c].lookup.err # Nil )
        => /\ pc' = pc
           /\ actorState' = actorState
           /\ \A d \in Conns \ {c} : conns'[d] = conns[d]

\* C7: a failed lookup (no such blob, or any other store error) answers 400
\* with the envelope of exactly the fields err and message, sets neither
\* Content-Disposition nor a blob Content-Type, writes no blob bytes, and
\* answering it leaves the server and its other connections as they were.
C7_FailedLookup == []C7_Response /\ [][C7_KeepsServing]_vars

\* C7 witness: a missing key was answered 400 and the server accepts the
\* next connection
C7_Witness ==
    /\ conns[1].stage = "done"
    /\ conns[1].req.path = << "api", "blobs", "nonexistent.png" >>
    /\ conns[1].lookup.err = ErrNoRows
    /\ conns[1].resp.status = 400
    /\ conns[2].stage = "idle"
    /\ ENABLED AcceptRequest

-----------------------------------------------------------------------------
(* Properties of the pure functions *)

ApiPrefix == << "/", "a", "p", "i", "/" >>

\* C8: a path beginning with /api/ is forwarded unchanged to the upstream;
\* every other path is served from the static root, rewritten to / when it
\* names no existing asset.
C8_RoutingPartition ==
    call.op = "ServeSite" =>
        IF HasPrefix(call.path, ApiPrefix)
        THEN /\ call.out.to = "proxy"
             /\ call.out.path = call.path
             /\ call.out.upstream = << "localhost", ServerAddr >>
        ELSE /\ call.out.to = "static"
             /\ call.out.path = IF call.exists THEN call.path ELSE << "/" >>

\* C9: withError answers an error with the envelope under the handler's
\* status code, answers a nil result without error with the envelope
\* "no response", and encodes the result only when it is non-nil and the
\* error is nil; a nil result never yields anything but an envelope.
C9_WithError ==
    call.op = "withError" =>
        LET envelope == DecodeJSON(call.resp.body)
        IN  /\ call.err # Nil =>
                  /\ call.resp.status = call.code
                  /\ envelope = { << "err", ErrorText(call.err) >>,
                                  << "message", ErrorText(call.err) >> }
            /\ (call.err = Nil /\ call.result = NilResult) =>
                  /\ call.resp.status = call.code
                  /\ envelope = { << "err", "no response" >>,
                                  << "message", "no response" >> }
            /\ envelope = {} =>
                  /\ call.result # NilResult
                  /\ call.err = Nil
                  /\ call.resp.body = Encode(call.result).out
            /\ call.result = NilResult => envelope # {}

\* C9 witness: a handler returned (nil, 200, nil)
C9_Witness ==
    /\ call.op = "withError"
    /\ call.result = NilResult
    /\ call.err = Nil
    /\ call.code = 200
    /\ call.resp.status = 200

\* C10: Err fills err with the error's text and message with the override or
\* else the text, the payload has these two fields only, and Unwrap yields
\* the error that was wrapped.
C10_EnvelopeAndUnwrap ==
    call.op = "Err" =>
        LET m == IF call.message = << >> THEN ErrorText(call.err) ELSE call.message[1]
        IN  /\ call.envelope = [Err |-> ErrorText(call.err), Message |-> m]
            /\ call.json = << "{", "err", ":", ErrorText(call.err), ",",
                              "message", ":", m, "}" >>
            /\ call.unwrapped = call.err

====
